---- MODULE Spec2Model ----
(***************************************************************************)
(* Model of the navigation core of the Habbo emulator: PathFinder (an A*   *)
(* style search over the room's heightmap) and TileInstance (the per-tile  *)
(* occupancy record).                                                      *)
(*                                                                         *)
(* Cells are pairs <<x, y>>.  Nodes live on a heap (the sequence `nodes`); *)
(* a node pointer is its index in the heap and 0 is nullptr.  m_OpenList   *)
(* and m_ClosedList are vectors of node pointers.                          *)
(***************************************************************************)
EXTENDS Integers, Sequences, FiniteSets, TLC

\* ------------------------------------------------------------------ bounds
MaxW == 3          \* widest heightmap explored (heights are 1 and 2 rows)
Margin == 2        \* how far outside the heightmap memory is still mapped
MaxCalls == 2      \* CalculatePath calls on one PathFinder (reuse)
MaxTileCalls == 2  \* SetTileOccupied calls each thread makes
MaxSolid == 1      \* tiles that hold a solid object

VARIABLES
    m_Grid,        \* heightmap: m_Grid[y+1][x+1] is the marker of cell <<x,y>>
    m_Outside,     \* what a read outside the heightmap yields: "X", "0", "fault"
    m_Solid,       \* cells whose TileInstance holds a solid object
    nodes,         \* heap of Node objects, pointer = index
    freed,         \* pointers already passed to delete
    m_OpenList,
    m_ClosedList,
    m_Current,
    p_Start,
    p_End,
    pc,            \* position of the CalculatePath call
    calls,         \* number of CalculatePath calls begun on this PathFinder
    gridReads,     \* coordinates handed to m_Grid[][] by the latest iteration
    walked,        \* cells visited by the parent walk, in visiting order
    goalReached,   \* the search loop ended through the break at the goal
    selCosts,      \* total costs of m_OpenList, in order, at the latest selection
    selIdx,        \* position in m_OpenList of the node the latest selection chose
    iters,         \* times the body of the while loop was entered in this call
    t_pc,          \* per thread: position inside SetTileOccupied
    t_arg,         \* per thread: the Habbo it is writing (0 = none)
    t_done,        \* per thread: completed SetTileOccupied calls
    m_Mutex,       \* owner of the tile's mutex, 0 = free
    m_HabboInit,   \* boost::optional<Habbo*>: initialised flag
    m_HabboPtr,    \* boost::optional<Habbo*>: stored pointer
    written        \* values written by completed SetTileOccupied calls

pfVars == <<m_Grid, m_Outside, m_Solid, nodes, freed, m_OpenList, m_ClosedList,
            m_Current, p_Start, p_End, pc, calls, gridReads, walked, goalReached,
            selCosts, selIdx, iters>>
tileVars == <<t_pc, t_arg, t_done, m_Mutex, m_HabboInit, m_HabboPtr, written>>
vars == <<pfVars, tileVars>>

\* ------------------------------------------------------- heightmap helpers
GridHeight == Len(m_Grid)
GridWidth == Len(m_Grid[1])
GridCells == {<<x, y>> : x \in 0..(GridWidth - 1), y \in 0..(GridHeight - 1)}
InBounds(pos) ==
    /\ pos[1] >= 0 /\ pos[1] < GridWidth
    /\ pos[2] >= 0 /\ pos[2] < GridHeight

\* Cells outside the heightmap whose memory is still mapped.
Mapped(pos) ==
    /\ pos[1] >= 0 - Margin /\ pos[1] <= GridWidth - 1 + Margin
    /\ pos[2] >= 0 - Margin /\ pos[2] <= GridHeight - 1 + Margin

\* m_Grid[p_Position.Y][p_Position.X]; indexing outside the array is
\* undefined: it yields whatever lies there, or faults.
GridRead(pos) ==
    IF InBounds(pos) THEN m_Grid[pos[2] + 1][pos[1] + 1]
    ELSE IF Mapped(pos) THEN m_Outside
    ELSE "fault"

\* PathFinder::CheckValidTile: "valid", "invalid" or "fault"
CheckValidTile(pos) ==
    LET marker == GridRead(pos)
    IN IF marker = "fault" THEN "fault"
       ELSE IF marker = "X" THEN "invalid"
       ELSE "valid"

\* m_Directions, in the constructor's order
Directions ==
    << <<0, 1>>, <<1, 0>>, <<0, -1>>, <<-1, 0>>,
       <<-1, -1>>, <<1, 1>>, <<-1, 1>>, <<1, -1>> >>

\* ------------------------------------------------------------ Node helpers
\* Node(x, y, parent): costs start at zero
NewNode(x, y, parent) == [x |-> x, y |-> y, g |-> 0, h |-> 0, parent |-> parent]

GetTotalCost(n) == n.g + n.h

Abs(i) == IF i < 0 THEN 0 - i ELSE i

\* PathFinder::CalculateHeuristic(p_Current, p_EndX, p_EndY)
CalculateHeuristic(p_Current, endX, endY) ==
    10 * (Abs(p_Current.x - endX) + Abs(p_Current.y - endY))

\* PathFinder::DoesNodeExist: the first node of the list, in iteration
\* order, that lies at the position; 0 (nullptr) when there is none
DoesNodeExist(heap, list, pos) ==
    LET hits == {i \in 1..Len(list) :
                    heap[list[i]].x = pos[1] /\ heap[list[i]].y = pos[2]}
    IN IF hits = {} THEN 0
       ELSE list[CHOOSE i \in hits : \A j \in hits : i <= j]

\* Selection that keeps the first of the cheapest nodes (strict comparison).
RECURSIVE SelectFromStrict(_, _, _, _)
SelectFromStrict(heap, list, i, best) ==
    IF i > Len(list) THEN best
    ELSE IF GetTotalCost(heap[list[i]]) < GetTotalCost(heap[list[best]])
         THEN SelectFromStrict(heap, list, i + 1, i)
         ELSE SelectFromStrict(heap, list, i + 1, best)

\* The selection loop of CalculatePath: starts at begin() and moves to every
\* later node whose total cost is <= the current one's.
RECURSIVE SelectFrom(_, _, _, _)
SelectFrom(heap, list, i, best) ==
    IF i > Len(list) THEN best
    ELSE IF GetTotalCost(heap[list[i]]) <= GetTotalCost(heap[list[best]])
         THEN SelectFrom(heap, list, i + 1, i)
         ELSE SelectFrom(heap, list, i + 1, best)

SelectCurrent(heap, list) == SelectFrom(heap, list, 1, 1)

\* A goal test that passes over the start node.
AtGoalSkipsStart(cur, endPos) ==
    cur.parent # 0 /\ cur.x = endPos[1] /\ cur.y = endPos[2]

\* The goal test of CalculatePath (line 75)
AtGoal(cur, endPos) == cur.x = endPos[1] /\ cur.y = endPos[2]

\* An erase that leaves the selected node in the list.
EraseNothing(list, idx) == list

\* vector::erase(iterator)
Erase(list, idx) == [i \in 1..(Len(list) - 1) |-> IF i < idx THEN list[i] ELSE list[i + 1]]

\* Step cost of direction l_I (1-based here): the first four are orthogonal
StepCost(dir) == IF dir <= 4 THEN 10 ELSE 14

\* The body of the direction loop of CalculatePath for direction dir of the
\* node with pointer curId.  st = [open, heap, reads, searched, status];
\* searched: DoesNodeExist has walked the closed list.
ExpandOne(dir, curId, closed, endPos, st) ==
    LET cur == st.heap[curId]
        pos == <<cur.x + Directions[dir][1], cur.y + Directions[dir][2]>>
        valid == CheckValidTile(pos)
        st1 == [st EXCEPT !.reads = Append(@, pos)]
        st2 == [st1 EXCEPT !.searched = TRUE]
    IN
      IF valid = "fault" THEN [st1 EXCEPT !.status = "fault"]
      ELSE IF valid = "invalid" THEN st1
      ELSE IF DoesNodeExist(st.heap, closed, pos) # 0 THEN st2
      ELSE
        LET l_GCost == cur.g + StepCost(dir)
            l_Node == DoesNodeExist(st.heap, st.open, pos)
        IN
          IF l_Node # 0 THEN
             IF l_GCost < cur.g
             THEN [st2 EXCEPT !.heap[l_Node].g = l_GCost,
                              !.heap[l_Node].parent = curId]
             ELSE st2
          ELSE
             LET l_NewNode == [NewNode(pos[1], pos[2], curId) EXCEPT
                                 !.g = l_GCost,
                                 !.h = CalculateHeuristic(cur, endPos[1], endPos[2])]
             IN [st2 EXCEPT !.heap = Append(@, l_NewNode),
                            !.open = Append(@, Len(st.heap) + 1)]

\* The direction loop of CalculatePath (lines 84..119) from direction dir on;
\* it stops at a fault.  (The set binds the intermediate state to a value.)
RECURSIVE Expand(_, _, _, _, _)
Expand(dir, curId, closed, endPos, st) ==
    IF dir > Len(Directions) \/ st.status = "fault" THEN st
    ELSE CHOOSE out \in {Expand(dir + 1, curId, closed, endPos, s) :
                           s \in {ExpandOne(dir, curId, closed, endPos, st)}} : TRUE

\* ------------------------------------------------------------------- Init
Markers == {"X", "0"}
Heights == 1..2
Habbos == 1..2
Threads == 1..2

Heightmaps ==
    UNION {[1..h -> [1..w -> Markers]] : w \in 1..MaxW, h \in Heights}

TileInit ==
    /\ t_pc = [t \in Threads |-> "idle"]
    /\ t_arg = [t \in Threads |-> 0]
    /\ t_done = [t \in Threads |-> 0]
    /\ m_Mutex = 0
    /\ m_HabboInit = FALSE
    /\ m_HabboPtr = 0
    /\ written = {}

PathFinderInit ==
    /\ nodes = <<>>
    /\ freed = {}
    /\ m_OpenList = <<>>
    /\ m_ClosedList = <<>>
    /\ m_Current = 0
    /\ p_Start = <<0, 0>>
    /\ p_End = <<0, 0>>
    /\ pc = "idle"
    /\ calls = 0
    /\ gridReads = <<>>
    /\ walked = <<>>
    /\ goalReached = FALSE
    /\ selCosts = <<>>
    /\ selIdx = 0
    /\ iters = 0

Init ==
    /\ m_Grid \in Heightmaps
    /\ m_Outside \in {"X", "0", "fault"}
    /\ m_Solid = {}
    /\ PathFinderInit
    /\ TileInit

\* ---------------------------------------------------------------- actions
\* CalculatePath, entry: push the start node (line 55)
BeginCall(limit) ==
    /\ pc \in {"idle", "done"}
    /\ calls < limit
    /\ \E s \in GridCells, e \in GridCells :
         /\ p_Start' = s
         /\ p_End' = e
         /\ nodes' = Append(nodes, NewNode(s[1], s[2], 0))
         /\ m_OpenList' = Append(m_OpenList, Len(nodes) + 1)
    /\ calls' = calls + 1
    /\ pc' = "loop"
    /\ gridReads' = <<>>
    /\ walked' = <<>>
    /\ goalReached' = FALSE
    /\ selCosts' = <<>>
    /\ selIdx' = 0
    /\ iters' = 0
    /\ UNCHANGED <<m_Grid, m_Outside, m_Solid, freed, m_ClosedList, m_Current, tileVars>>

\* A pointer in the lists that was already deleted: dereferencing it is
\* undefined (the memory may still hold the old node, or the read faults).
Dangling(list) == \E i \in 1..Len(list) : list[i] \in freed

\* One iteration of the while loop of CalculatePath (lines 57..120).  The
\* selection loop dereferences every pointer of m_OpenList, DoesNodeExist
\* those of the list it is given.
SearchStep ==
    /\ pc = "loop"
    /\ iters' = IF m_OpenList = <<>> THEN iters ELSE iters + 1
    /\ IF m_OpenList = <<>>
       THEN /\ pc' = "walk"
            /\ UNCHANGED <<nodes, m_OpenList, m_ClosedList, m_Current, gridReads,
                           goalReached, selCosts, selIdx>>
       ELSE
         \E idx \in {SelectCurrent(nodes, m_OpenList)} :
         \E st \in {Expand(1, m_OpenList[idx], Append(m_ClosedList, m_OpenList[idx]), p_End,
                           [open |-> Erase(m_OpenList, idx),
                            heap |-> nodes,
                            reads |-> <<>>,
                            searched |-> FALSE,
                            status |-> "ok"])} :
         LET curId == m_OpenList[idx]
             cur == nodes[curId]
             closed == Append(m_ClosedList, curId)
             derefFreed == \/ Dangling(m_OpenList)
                           \/ ~AtGoal(cur, p_End) /\ st.searched /\ Dangling(m_ClosedList)
         IN \E ub \in {"stale", "fault"} :
              /\ (ub = "fault") => derefFreed
              /\ IF ub = "fault"
                 THEN /\ pc' = "fault"
                      /\ UNCHANGED <<nodes, m_OpenList, m_ClosedList, m_Current,
                                     gridReads, goalReached, selCosts, selIdx>>
                 ELSE /\ m_Current' = curId
                      /\ selIdx' = idx
                      /\ selCosts' = [i \in 1..Len(m_OpenList) |->
                                        GetTotalCost(nodes[m_OpenList[i]])]
                      /\ IF AtGoal(cur, p_End)
                         THEN /\ goalReached' = TRUE
                              /\ pc' = "walk"
                              /\ UNCHANGED <<nodes, m_OpenList, m_ClosedList, gridReads>>
                         ELSE /\ m_ClosedList' = closed
                              /\ m_OpenList' = st.open
                              /\ nodes' = st.heap
                              /\ gridReads' = st.reads
                              /\ pc' = IF st.status = "fault" THEN "fault" ELSE "loop"
                              /\ UNCHANGED goalReached
    /\ UNCHANGED <<m_Grid, m_Outside, m_Solid, freed, p_Start, p_End, calls, walked, tileVars>>

\* The parent walk (lines 122..125), one link per step
WalkStep ==
    /\ pc = "walk"
    /\ IF m_Current # 0
       THEN /\ walked' = Append(walked, <<nodes[m_Current].x, nodes[m_Current].y>>)
            /\ m_Current' = nodes[m_Current].parent
            /\ pc' = "walk"
       ELSE /\ pc' = "cleanup"
            /\ UNCHANGED <<walked, m_Current>>
    /\ UNCHANGED <<m_Grid, m_Outside, m_Solid, nodes, freed, m_OpenList, m_ClosedList,
                   p_Start, p_End, calls, gridReads, goalReached, selCosts, selIdx,
                   iters, tileVars>>

ListSet(list) == {list[i] : i \in 1..Len(list)}

\* PathFinder::CleanUp: delete every pointer of both vectors; the vectors
\* themselves are left as they are.  Deleting a pointer twice is undefined.
CleanUp ==
    /\ pc = "cleanup"
    /\ \E ub \in {"ok", "fault"} :
         /\ (ub = "fault") => (Dangling(m_OpenList) \/ Dangling(m_ClosedList))
         /\ pc' = IF ub = "fault" THEN "fault" ELSE "done"
    /\ freed' = freed \cup ListSet(m_ClosedList) \cup ListSet(m_OpenList)
    /\ UNCHANGED <<m_Grid, m_Outside, m_Solid, nodes, m_OpenList, m_ClosedList, m_Current,
                   p_Start, p_End, calls, gridReads, walked, goalReached, selCosts,
                   selIdx, iters, tileVars>>

Next ==
    \/ BeginCall(1)
    \/ SearchStep
    \/ WalkStep
    \/ CleanUp

Spec == Init /\ [][Next]_vars

\* The 5 x 5 heightmap in which every cell is walkable.
Init5x5 ==
    /\ m_Grid = [y \in 1..5 |-> [x \in 1..5 |-> "0"]]
    /\ m_Outside \in {"X", "0", "fault"}
    /\ m_Solid = {}
    /\ PathFinderInit
    /\ TileInit

Spec5x5 == Init5x5 /\ [][Next]_vars

\* TileInstance::AddItem with a solid item: the tile of that cell now
\* contains a solid object.  Items are placed before the path is asked for.
AddItem(cell) ==
    /\ pc = "idle"
    /\ cell \in GridCells
    /\ cell \notin m_Solid
    /\ Cardinality(m_Solid) < MaxSolid
    /\ m_Solid' = m_Solid \cup {cell}
    /\ UNCHANGED <<m_Grid, m_Outside, nodes, freed, m_OpenList, m_ClosedList, m_Current,
                   p_Start, p_End, pc, calls, gridReads, walked, goalReached, selCosts,
                   selIdx, iters, tileVars>>

\* TileInstance::TileContainsSolidObject
TileContainsSolidObject(cell) == cell \in m_Solid

\* TileInstance::CanWalkOnTile
CanWalkOnTile(cell) == InBounds(cell) /\ ~TileContainsSolidObject(cell)

NextSolid ==
    \/ \E cell \in GridCells : AddItem(cell)
    \/ BeginCall(1)
    \/ SearchStep
    \/ WalkStep
    \/ CleanUp

SpecSolid == Init /\ [][NextSolid]_vars

\* ------------------------------------------------ TileInstance occupancy
\* A lock step that does not wait for the mutex to be free.
TileLockNoWait(t, habbo) ==
    /\ t_pc[t] = "idle"
    /\ t_done[t] < MaxTileCalls
    /\ m_Mutex' = t
    /\ t_pc' = [t_pc EXCEPT ![t] = "locked"]
    /\ t_arg' = [t_arg EXCEPT ![t] = habbo]
    /\ UNCHANGED <<pfVars, t_done, m_HabboInit, m_HabboPtr, written>>

\* SetTileOccupied(p_Occupied, p_Habbo) as run by thread t: take m_Mutex,
\* store the pointer, store the optional's initialised flag, release.
\* habbo = 0 stands for SetTileOccupied(false).
TileLock(t, habbo) ==
    /\ t_pc[t] = "idle"
    /\ t_done[t] < MaxTileCalls
    /\ m_Mutex = 0
    /\ m_Mutex' = t
    /\ t_pc' = [t_pc EXCEPT ![t] = "locked"]
    /\ t_arg' = [t_arg EXCEPT ![t] = habbo]
    /\ UNCHANGED <<pfVars, t_done, m_HabboInit, m_HabboPtr, written>>

TileWritePtr(t) ==
    /\ t_pc[t] = "locked"
    /\ m_HabboPtr' = t_arg[t]
    /\ t_pc' = [t_pc EXCEPT ![t] = "ptr"]
    /\ UNCHANGED <<pfVars, t_arg, t_done, m_Mutex, m_HabboInit, written>>

TileWriteInit(t) ==
    /\ t_pc[t] = "ptr"
    /\ m_HabboInit' = (t_arg[t] # 0)
    /\ t_pc' = [t_pc EXCEPT ![t] = "flag"]
    /\ UNCHANGED <<pfVars, t_arg, t_done, m_Mutex, m_HabboPtr, written>>

TileUnlock(t) ==
    /\ t_pc[t] = "flag"
    /\ m_Mutex' = 0
    /\ written' = written \cup {t_arg[t]}
    /\ t_done' = [t_done EXCEPT ![t] = @ + 1]
    /\ t_pc' = [t_pc EXCEPT ![t] = "idle"]
    /\ UNCHANGED <<pfVars, t_arg, m_HabboInit, m_HabboPtr>>

InitTile ==
    /\ m_Grid = <<<<"0">>>>
    /\ m_Outside = "X"
    /\ m_Solid = {}
    /\ PathFinderInit
    /\ TileInit

NextTile ==
    \E t \in Threads :
        \/ \E habbo \in Habbos \cup {0} : TileLock(t, habbo)
        \/ TileWritePtr(t)
        \/ TileWriteInit(t)
        \/ TileUnlock(t)

SpecTile == InitTile /\ [][NextTile]_vars

\* The same PathFinder called again after a call has returned.
NextReuse ==
    \/ BeginCall(MaxCalls)
    \/ SearchStep
    \/ WalkStep
    \/ CleanUp

SpecReuse == Init /\ [][NextReuse]_vars

\* ------------------------------------------------------------ properties
Walkable(c) == InBounds(c) /\ m_Grid[c[2] + 1][c[1] + 1] # "X"

Offsets == {Directions[i] : i \in 1..Len(Directions)}
Adjacent(a, b) == <<b[1] - a[1], b[2] - a[2]>> \in Offsets

\* Cells reachable from the cells of `seen` by 8-connected steps onto
\* walkable cells.
RECURSIVE ReachFrom(_)
ReachFrom(seen) ==
    LET more == {c \in GridCells : Walkable(c) /\ \E a \in seen : Adjacent(a, c)}
    IN IF more \subseteq seen THEN seen ELSE ReachFrom(seen \cup more)

Reachable(s, e) == e \in ReachFrom({s})

Returned == pc \in {"cleanup", "done"}

\* C1: when end is reachable from start through walkable cells, the call
\* ends with a sequence of cells that begins at start and ends at end.
C1_PathRunsStartToEnd ==
    (Returned /\ Reachable(p_Start, p_End)) =>
        /\ goalReached
        /\ walked # <<>>
        /\ walked[1] = p_Start
        /\ walked[Len(walked)] = p_End

\* C2: a path that is returned moves by one of the 8 neighbor offsets at
\* every step and only holds cells that are walkable in the heightmap.
C2_PathAdjacentAndWalkable ==
    (Returned /\ goalReached) =>
        /\ \A i \in 1..(Len(walked) - 1) : Adjacent(walked[i], walked[i + 1])
        /\ \A i \in 1..Len(walked) : Walkable(walked[i])

\* C3: when the open list empties without the goal being selected, no cell
\* is reported as part of a path.
C3_FailureYieldsEmptyResult ==
    (Returned /\ ~goalReached) => walked = <<>>

\* C4: CalculatePath(s, s) ends with the single-cell path <<s>>, without a
\* fault, and without expanding: no neighbor coordinate is looked up and no
\* node other than the start node is created.
C4_TrivialPathNoExpansion ==
    (pc # "idle" /\ p_Start = p_End) =>
        /\ pc # "fault"
        /\ Len(nodes) = 1
        /\ gridReads = <<>>
        /\ m_ClosedList = <<>>
        /\ (pc # "loop" => goalReached)
        /\ (Returned => walked = <<p_Start>>)

C4_Witness ==
    /\ pc = "done"
    /\ p_Start = p_End
    /\ walked = <<p_Start>>
    /\ \E c \in GridCells : Walkable(c) /\ Adjacent(p_Start, c)

\* C5: the heightmap is never indexed with a coordinate outside its
\* dimensions.
C5_GridReadsInBounds ==
    \A i \in 1..Len(gridReads) : InBounds(gridReads[i])

\* C10 as stated: the selected node has the minimum total cost of the open
\* list, and among the nodes sharing that minimum the earliest is selected.
C10_SelectsEarliestMinimum ==
    selIdx # 0 =>
        /\ \A j \in 1..Len(selCosts) : selCosts[j] >= selCosts[selIdx]
        /\ \A j \in 1..(selIdx - 1) : selCosts[j] > selCosts[selIdx]

\* C10 amended: the selected node has the minimum total cost of the open
\* list, and among the nodes sharing that minimum the latest is selected.
C10_SelectsLatestMinimum ==
    selIdx # 0 =>
        /\ selIdx \in 1..Len(selCosts)
        /\ \A j \in 1..Len(selCosts) : selCosts[j] >= selCosts[selIdx]
        /\ \A j \in (selIdx + 1)..Len(selCosts) : selCosts[j] > selCosts[selIdx]

\* a selection among three or more open nodes where the minimum is shared
\* and a costlier node is present too
C10_Witness ==
    /\ selIdx # 0
    /\ Len(selCosts) >= 3
    /\ \E j \in 1..(selIdx - 1) : selCosts[j] = selCosts[selIdx]
    /\ \E j \in 1..Len(selCosts) : selCosts[j] > selCosts[selIdx]

\* C6: when a call has returned the open and closed lists hold no nodes,
\* and a later call on the same PathFinder starts from its own start node
\* alone.
C6_ListsEmptyAfterCall ==
    /\ pc = "done" => (m_OpenList = <<>> /\ m_ClosedList = <<>>)
    /\ (pc = "loop" /\ selIdx = 0) => Len(m_OpenList) = 1

\* Sum of the step costs along a sequence of cells: 10 for an orthogonal
\* step, 14 for a diagonal one.
RECURSIVE PathCost(_)
PathCost(path) ==
    IF Len(path) <= 1 THEN 0
    ELSE (IF path[1][1] = path[2][1] \/ path[1][2] = path[2][2] THEN 10 ELSE 14)
         + PathCost(Tail(path))

\* C8: on the 5 x 5 all-walkable heightmap the path found from (0,0) to
\* (4,4) has total step cost 56.
C8_DiagonalCost56 ==
    (Returned /\ goalReached /\ p_Start = <<0, 0>> /\ p_End = <<4, 4>>) =>
        PathCost(walked) = 56

C8_Witness ==
    /\ pc = "done" /\ goalReached
    /\ p_Start = <<0, 0>> /\ p_End = <<4, 4>>
    /\ Len(walked) = 5

\* C7: a cell whose tile holds a solid object never gets a node (the given
\* start aside) and never appears in a returned path.
C7_SolidCellsNeverExpanded ==
    /\ \A n \in 2..Len(nodes) : ~TileContainsSolidObject(<<nodes[n].x, nodes[n].y>>)
    /\ (Returned /\ goalReached) =>
          \A i \in 1..Len(walked) :
              walked[i] = p_Start \/ CanWalkOnTile(walked[i])

\* The occupant the tile reports: the optional's value, 0 when empty.
Occupant == IF m_HabboInit THEN m_HabboPtr ELSE 0

\* C9: the writes of concurrent SetTileOccupied calls never overlap (each
\* runs under the tile's mutex), and whenever no call is in progress the
\* occupant is the value one of the completed calls wrote, the flag and the
\* pointer agreeing.
C9_OccupantWrittenByOneCall ==
    /\ Cardinality({t \in Threads : t_pc[t] # "idle"}) <= 1
    /\ \A t \in Threads : t_pc[t] # "idle" => m_Mutex = t
    /\ ((\A t \in Threads : t_pc[t] = "idle") /\ written # {}) =>
          /\ Occupant \in written
          /\ m_HabboInit = (m_HabboPtr # 0)

\* both threads have completed calls that wrote different occupants
C9_Witness ==
    /\ \A t \in Threads : t_pc[t] = "idle" /\ t_done[t] >= 1
    /\ Cardinality(written) >= 2
    /\ Occupant # 0

NodeCell(id) == <<nodes[id].x, nodes[id].y>>

\* Cost of the single step between two adjacent cells
MoveCost(a, b) == IF a[1] = b[1] \/ a[2] = b[2] THEN 10 ELSE 14

\* C11: once a node has been expanded, every neighbor that has a node in
\* open carries a G cost no higher than the one through the expanded node
\* (a cheaper route re-costs the open node), and no cell has two nodes in
\* open.
C11_OpenNodeTakesLowerGCost ==
    pc = "loop" =>
        /\ \A i \in 1..Len(m_ClosedList) : \A j \in 1..Len(m_OpenList) :
              Adjacent(NodeCell(m_ClosedList[i]), NodeCell(m_OpenList[j])) =>
                 nodes[m_OpenList[j]].g <=
                    nodes[m_ClosedList[i]].g
                      + MoveCost(NodeCell(m_ClosedList[i]), NodeCell(m_OpenList[j]))
        /\ \A i, j \in 1..Len(m_OpenList) :
              NodeCell(m_OpenList[i]) = NodeCell(m_OpenList[j]) => i = j

\* C12: every node created for a neighbor has H cost 10 times the Manhattan
\* distance from its own cell to end, and its parent is the node that was
\* being expanded (a closed node one step away).
C12_HeuristicFromNeighbor ==
    \A n \in 2..Len(nodes) :
        /\ nodes[n].h = 10 * (Abs(nodes[n].x - p_End[1]) + Abs(nodes[n].y - p_End[2]))
        /\ nodes[n].parent \in ListSet(m_ClosedList)
        /\ Adjacent(NodeCell(nodes[n].parent), NodeCell(n))

\* C13: the loop body is entered at most width x height times in a call,
\* and a cell never has a node in closed and a node in open.
C13_IterationsBoundedByGrid ==
    /\ iters <= GridWidth * GridHeight
    /\ \A i \in 1..Len(m_ClosedList) : \A j \in 1..Len(m_OpenList) :
          NodeCell(m_ClosedList[i]) # NodeCell(m_OpenList[j])

\* C14: in a call on a fresh PathFinder every node created is held exactly
\* once, by exactly one of the open and closed lists (the two lists together
\* have as many entries as there are nodes and hold every node), no cell has
\* two nodes, nothing is deleted before CleanUp, and CleanUp deletes every
\* node created (each pointer it walks over is distinct and not yet deleted).
C14_EveryNodeHeldAndFreedOnce ==
    /\ Len(m_OpenList) + Len(m_ClosedList) = Len(nodes)
    /\ ListSet(m_OpenList) \cup ListSet(m_ClosedList) = 1..Len(nodes)
    /\ Cardinality({NodeCell(id) : id \in 1..Len(nodes)}) = Len(nodes)
    /\ pc \in {"loop", "walk", "cleanup", "fault"} => freed = {}
    /\ pc = "done" => freed = 1..Len(nodes)

\* a call that found the goal and returned, with nodes left in both lists
C14_Witness ==
    /\ pc = "done" /\ goalReached
    /\ Len(m_OpenList) >= 2 /\ Len(m_ClosedList) >= 2
    /\ freed = 1..Len(nodes)

====
